---- MODULE Spec2Model ----
(***************************************************************************)
(* A model of bun-sql-session-store (src/index.ts): the BunSQLStore class, *)
(* an express-session store backed by one SQL table                        *)
(*   sessions(sid PRIMARY KEY, expires, data, created_at)                  *)
(* and the module-level initialization guard (isInitialized, initPromise). *)
(*                                                                         *)
(* Every store operation is an async function: its synchronous prefix      *)
(* (read Date.now(), compute expires, serialize, issue the statement) is   *)
(* one step, the database executing the statement is a second step, and    *)
(* the continuation after the await (the callback) is a third.  Statements *)
(* of different calls are executed by the database in any order.           *)
(***************************************************************************)
EXTENDS Integers, Sequences, FiniteSets

VARIABLES
  now,            \* Date.now(), epoch milliseconds
  table,          \* the rows of table sessions (a set of records)
  ops,            \* the calls in flight, one per slot
  lastCb,         \* the completion callback the last step invoked, NoCb if none
  lastLog,        \* what the last step wrote to the console, NoLog if nothing
  lastOp,         \* history: per sid, the last statement the database applied to it
  writes,         \* history: set, touch, destroy, clear and prune calls so far
  reads,          \* history: get and length calls so far
  isInitialized,  \* module-level flag
  initPromise,    \* module-level in-flight marker: 0 is null, i the promise of store i
  stores,         \* the store instances constructed so far
  attempt,        \* per store, the position of the initializeDb() call it started
  tableExists,    \* per database, whether table sessions exists
  indexExists,    \* per database, whether index idx_sessions_expires exists
  ctorThrew,      \* whether the most recent constructor call threw
  nStarted,       \* history: initialization attempts started
  nFailed         \* history: initialization attempts that failed

storeVars == <<now, table, ops, lastCb, lastOp, writes, reads>>
initVars  == <<isInitialized, initPromise, stores, attempt, tableExists,
               indexExists, ctorThrew, nStarted, nFailed>>
vars == <<now, table, ops, lastCb, lastLog, lastOp, writes, reads,
          isInitialized, initPromise, stores, attempt, tableExists,
          indexExists, ctorThrew, nStarted, nFailed>>

----------------------------------------------------------------------------
(* Bounds of the model *)

\* Date.now() takes the values 0 .. MaxFine and d * Period, d <= MaxDays
MaxFine == 1
MaxDays == 1
\* calls that may be awaiting the database at the same time
MaxInFlight == 2
\* calls in one behaviour: of set, touch, destroy, clear, prune; of get, length
MaxWrites == 2
MaxReads == 1
\* store instances constructed in one behaviour
MaxStores == 3

(* Program constants *)

DefaultTtl == 86400
MsPerSecond == 1000

Sids == {"abc", "def"}
Dbs == {"db1", "db2"}
Slots == 1 .. MaxInFlight

----------------------------------------------------------------------------
(* JavaScript values.  A cookie field is a tagged value; "undefined" also  *)
(* stands for a missing key.  A Date holds its epoch instant.              *)

Undefined == [t |-> "undefined", v |-> 0]
JsNull    == [t |-> "null", v |-> 0]
Num(n)    == [t |-> "number", v |-> n]
DateOf(n) == [t |-> "Date", v |-> n]
\* the string Date.prototype.toISOString() gives for instant n
IsoString(n) == [t |-> "string", v |-> n]

MkSession(maxAge, expires, user) ==
  [cookie |-> [maxAge |-> maxAge, expires |-> expires], user |-> user]

\* the session payloads callers pass
SessionA == MkSession(Num(1), Undefined, "x")
SessionB == MkSession(Undefined, JsNull, "y")
SessionC == MkSession(Num(2), DateOf(2), "x")
Sessions == {SessionA, SessionB, SessionC}

\* callback(null, null): no session
NoSession == [t |-> "null", v |-> 0]

(* JSON text, as the tree it denotes.  "omitted" is a key that is not      *)
(* written.                                                                *)
JOmitted   == [j |-> "omitted", v |-> 0]
JNull      == [j |-> "null", v |-> 0]
JNumber(n) == [j |-> "number", v |-> n]
JString(n) == [j |-> "string", v |-> n]

\* JSON.stringify of one value: undefined keys are dropped, a Date is
\* written through toJSON() as its ISO string
StringifyValue(x) ==
  CASE x.t = "undefined" -> JOmitted
    [] x.t = "null"      -> JNull
    [] x.t = "number"    -> JNumber(x.v)
    [] x.t = "Date"      -> JString(x.v)
    [] x.t = "string"    -> JString(x.v)

\* JSON.parse of one value: a JSON string is a string, whatever wrote it
ParseValue(y) ==
  CASE y.j = "omitted" -> Undefined
    [] y.j = "null"    -> JsNull
    [] y.j = "number"  -> Num(y.v)
    [] y.j = "string"  -> IsoString(y.v)

JSONstringify(session) ==
  [cookie |-> [maxAge  |-> StringifyValue(session.cookie.maxAge),
               expires |-> StringifyValue(session.cookie.expires)],
   user |-> session.user]

JSONparse(text) ==
  [cookie |-> [maxAge  |-> ParseValue(text.cookie.maxAge),
               expires |-> ParseValue(text.cookie.expires)],
   user |-> text.user]

----------------------------------------------------------------------------
(* Decimal strings: the COUNT query answers with a string of digits *)

RECURSIVE ToDecimal(_)
ToDecimal(n) == IF n < 10 THEN <<n>> ELSE Append(ToDecimal(n \div 10), n % 10)

RECURSIVE ParseInt10(_)
ParseInt10(s) ==
  IF Len(s) = 0 THEN 0
  ELSE 10 * ParseInt10(SubSeq(s, 1, Len(s) - 1)) + s[Len(s)]

----------------------------------------------------------------------------
(* Errors of the database executor.  A message is the sequence of its      *)
(* words.                                                                  *)

ConnectionLost   == <<"connection", "lost">>
StatementExists  == <<"prepared", "statement", "already", "exists">>
StatementMissing == <<"prepared", "statement", "does", "not", "exist">>
RelationMissing  == <<"relation", "sessions", "does", "not", "exist">>
ErrorMessages == {ConnectionLost, StatementExists, StatementMissing, RelationMissing}
NoError == << >>

AlreadyExists == <<"already", "exists">>
DoesNotExist  == <<"does", "not", "exist">>

\* message.includes(part)
Includes(message, part) ==
  \E k \in 1 .. Len(message) - Len(part) + 1 :
    SubSeq(message, k, k + Len(part) - 1) = part

\* console.log / console.error
NoLog == [level |-> "none", text |-> "", count |-> << >>, error |-> NoError]
ConsoleLog(text, count) == [NoLog EXCEPT !.level = "log", !.text = text, !.count = count]
ConsoleError(text, error) == [NoLog EXCEPT !.level = "error", !.text = text, !.error = error]

----------------------------------------------------------------------------
(* Expiry *)

\* typeof session.cookie.maxAge === "number" ? session.cookie.maxAge : this.ttl * 1000
MaxAgeOf(session, storeTtl) ==
  IF session.cookie.maxAge.t = "number"
    THEN session.cookie.maxAge.v
    ELSE storeTtl * MsPerSecond

\* now + maxAge
ExpiresAt(t, session, storeTtl) == t + MaxAgeOf(session, storeTtl)

----------------------------------------------------------------------------
(* The SQL statements, as the database applies them to the rows *)

HasRow(tbl, sid) == \E r \in tbl : r.sid = sid
RowsOf(tbl, sid) == {r \in tbl : r.sid = sid}

\* variants of the upsert: a plain INSERT on a table without the primary key,
\* created_at among the updated columns, and an update that is not restricted
\* to the conflicting row
UpsertAlwaysInsert(tbl, sid, expires, data, createdAt) ==
  tbl \cup {[sid |-> sid, expires |-> expires, data |-> data, created_at |-> createdAt]}

UpsertResetCreatedAt(tbl, sid, expires, data, createdAt) ==
  {r \in tbl : r.sid # sid}
    \cup {[sid |-> sid, expires |-> expires, data |-> data, created_at |-> createdAt]}

UpsertUpdateAll(tbl, sid, expires, data, createdAt) ==
  IF HasRow(tbl, sid)
    THEN {[r EXCEPT !.expires = expires, !.data = data] : r \in tbl}
    ELSE tbl \cup {[sid |-> sid, expires |-> expires, data |-> data,
                    created_at |-> createdAt]}

\* variant of the upsert: the conflict clause sets expires only
UpsertKeepsData(tbl, sid, expires, data, createdAt) ==
  IF HasRow(tbl, sid)
    THEN {IF r.sid = sid THEN [r EXCEPT !.expires = expires] ELSE r : r \in tbl}
    ELSE tbl \cup {[sid |-> sid, expires |-> expires, data |-> data,
                    created_at |-> createdAt]}

\* INSERT INTO sessions (sid, expires, data, created_at) VALUES (...)
\*   ON CONFLICT (sid) DO UPDATE SET expires = EXCLUDED.expires, data = EXCLUDED.data
Upsert(tbl, sid, expires, data, createdAt) ==
  IF HasRow(tbl, sid)
    THEN {IF r.sid = sid THEN [r EXCEPT !.expires = expires, !.data = data] ELSE r
          : r \in tbl}
    ELSE tbl \cup {[sid |-> sid, expires |-> expires, data |-> data,
                    created_at |-> createdAt]}

\* variant of the read: expires >= now
SelectNotBefore(tbl, sid, t) ==
  {r.data : r \in {q \in tbl : q.sid = sid /\ q.expires >= t}}

\* variant of the read: the sid condition missing
SelectAnySid(tbl, sid, t) == {r.data : r \in {q \in tbl : q.expires > t}}

\* SELECT data FROM sessions WHERE sid = ${sid} AND expires > ${now}
SelectData(tbl, sid, t) == {r.data : r \in {q \in tbl : q.sid = sid /\ q.expires > t}}

\* variant of the destroy: the DELETE without its WHERE clause
DeleteEverySid(tbl, sid) == {}

\* DELETE FROM sessions WHERE sid = ${sid}
DeleteSid(tbl, sid) == {r \in tbl : r.sid # sid}

\* DELETE FROM sessions
DeleteAll(tbl) == {}

\* variant of the count: only the rows that have not expired
CountLiveRows(tbl) == ToDecimal(Cardinality({r \in tbl : r.expires > now}))

\* SELECT COUNT FROM sessions
CountRows(tbl) == ToDecimal(Cardinality(tbl))

\* variant of the touch: the UPDATE without its WHERE clause
UpdateAllRows(tbl, sid, expires) == {[r EXCEPT !.expires = expires] : r \in tbl}

\* UPDATE sessions SET expires = ${expires} WHERE sid = ${sid}
UpdateExpires(tbl, sid, expires) ==
  {IF r.sid = sid THEN [r EXCEPT !.expires = expires] ELSE r : r \in tbl}

\* variant of the prune: expires <= now
DeleteNotAfter(tbl, t) == {r \in tbl : ~(r.expires <= t)}

\* variant of the prune: the instant of the database when it applies the
\* DELETE, not the instant the call read
DeleteExpiredAtApply(tbl, t) == {r \in tbl : ~(r.expires < now)}

\* DELETE FROM sessions WHERE expires < ${now}
DeleteExpired(tbl, t) == {r \in tbl : ~(r.expires < t)}

\* parseInt(rows[0][0], 10) || 0
ParseCount(digits) == LET n == ParseInt10(digits) IN IF n = 0 THEN 0 ELSE n

----------------------------------------------------------------------------
(* Calls in flight *)

NoData == [cookie |-> [maxAge |-> JOmitted, expires |-> JOmitted], user |-> ""]
\* an entry of lastOp: upd says the statement found a row of the sid, conc that
\* a set of another sid was awaiting the database when it was applied
NoOp == [op |-> "none", session |-> NoSession, expires |-> 0, now |-> 0,
         upd |-> FALSE, conc |-> FALSE]

Idle == [pc |-> "idle", op |-> "none", sid |-> "", now |-> 0, expires |-> 0,
         data |-> NoData, session |-> NoSession, rows |-> {}, count |-> <<>>,
         seen |-> NoOp, error |-> NoError]

\* a callback record holds the arguments of the first invocation; again says
\* the catch block invoked the callback a second time, with the exception the
\* first invocation threw, and unhandled that the promise of the method
\* rejected
NoCb == [op |-> "none", sid |-> "", err |-> FALSE, session |-> NoSession,
         count |-> 0, now |-> 0, seen |-> NoOp, error |-> NoError,
         again |-> FALSE, unhandled |-> FALSE]

\* this.ttl of the store the operations are called on, the first constructed
ThisTtl == stores[1].ttl

\* a call takes the lowest free slot
FreeSlot ==
  CHOOSE i \in Slots : ops[i].pc = "idle" /\ \A k \in Slots : ops[k].pc = "idle" => i <= k
CanRead == reads < MaxReads /\ \E i \in Slots : ops[i].pc = "idle"
CanWrite == writes < MaxWrites /\ \E i \in Slots : ops[i].pc = "idle"

\* the synchronous prefix of an async method, up to its await
Issue(call) ==
  /\ ops' = [ops EXCEPT ![FreeSlot] = call]
  /\ writes' = IF call.op \in {"get", "length"} THEN writes ELSE writes + 1
  /\ reads' = IF call.op \in {"get", "length"} THEN reads + 1 ELSE reads
  /\ lastCb' = NoCb
  /\ lastLog' = NoLog
  /\ UNCHANGED <<now, table, lastOp>>
  /\ UNCHANGED initVars

\* get(sid, callback), lines 86-88
Get(sid) ==
  /\ CanRead
  /\ Issue([Idle EXCEPT !.pc = "awaiting", !.op = "get", !.sid = sid, !.now = now])

\* set(sid, session, callback), lines 105-114
Set(sid, session) ==
  /\ CanWrite
  /\ Issue([Idle EXCEPT !.pc = "awaiting", !.op = "set", !.sid = sid, !.now = now,
                        !.expires = ExpiresAt(now, session, ThisTtl),
                        !.data = JSONstringify(session), !.session = session])

\* destroy(sid, callback), lines 124-125
Destroy(sid) ==
  /\ CanWrite
  /\ Issue([Idle EXCEPT !.pc = "awaiting", !.op = "destroy", !.sid = sid])

\* clear(callback), lines 134-135
Clear ==
  /\ CanWrite
  /\ Issue([Idle EXCEPT !.pc = "awaiting", !.op = "clear"])

\* length(callback), lines 144-145
Length ==
  /\ CanRead
  /\ Issue([Idle EXCEPT !.pc = "awaiting", !.op = "length"])

\* touch(sid, session, callback), lines 159-166
Touch(sid, session) ==
  /\ CanWrite
  /\ Issue([Idle EXCEPT !.pc = "awaiting", !.op = "touch", !.sid = sid, !.now = now,
                        !.expires = ExpiresAt(now, session, ThisTtl),
                        !.session = session])

\* prune(), lines 175-177
Prune ==
  /\ CanWrite
  /\ Issue([Idle EXCEPT !.pc = "awaiting", !.op = "prune", !.now = now])

----------------------------------------------------------------------------
(* The database executes the statement of call i *)

Awaiting(i, op) == ops[i].pc = "awaiting" /\ ops[i].op = op

\* table sessions exists in the database of this store
SchemaExists == tableExists[stores[1].db]

Settle(i, fields) ==
  /\ ops' = [ops EXCEPT ![i] = fields]
  /\ lastCb' = NoCb
  /\ lastLog' = NoLog
  /\ UNCHANGED <<now, writes, reads>>
  /\ UNCHANGED initVars

ExecSelect(i) ==
  /\ Awaiting(i, "get")
  /\ SchemaExists
  /\ Settle(i, [ops[i] EXCEPT !.pc = "resolved",
                              !.rows = SelectData(table, ops[i].sid, ops[i].now),
                              !.seen = lastOp[ops[i].sid]])
  /\ UNCHANGED <<table, lastOp>>

ExecUpsert(i) ==
  /\ Awaiting(i, "set")
  /\ SchemaExists
  /\ table' = Upsert(table, ops[i].sid, ops[i].expires, ops[i].data, ops[i].now)
  /\ lastOp' = [lastOp EXCEPT ![ops[i].sid] =
                  [op |-> "set", session |-> ops[i].session,
                   expires |-> ops[i].expires, now |-> ops[i].now,
                   upd |-> HasRow(table, ops[i].sid),
                   conc |-> \E k \in Slots : /\ Awaiting(k, "set")
                                              /\ ops[k].sid # ops[i].sid]]
  /\ Settle(i, [ops[i] EXCEPT !.pc = "resolved"])

ExecDeleteSid(i) ==
  /\ Awaiting(i, "destroy")
  /\ SchemaExists
  /\ table' = DeleteSid(table, ops[i].sid)
  /\ lastOp' = [lastOp EXCEPT ![ops[i].sid] = [NoOp EXCEPT !.op = "destroy"]]
  /\ Settle(i, [ops[i] EXCEPT !.pc = "resolved"])

ExecDeleteAll(i) ==
  /\ Awaiting(i, "clear")
  /\ SchemaExists
  /\ table' = DeleteAll(table)
  /\ lastOp' = [s \in Sids |-> [NoOp EXCEPT !.op = "clear"]]
  /\ Settle(i, [ops[i] EXCEPT !.pc = "resolved"])

ExecCount(i) ==
  /\ Awaiting(i, "length")
  /\ SchemaExists
  /\ Settle(i, [ops[i] EXCEPT !.pc = "resolved", !.count = CountRows(table)])
  /\ UNCHANGED <<table, lastOp>>

ExecUpdate(i) ==
  /\ Awaiting(i, "touch")
  /\ SchemaExists
  /\ table' = UpdateExpires(table, ops[i].sid, ops[i].expires)
  /\ lastOp' = IF HasRow(table, ops[i].sid)
                 THEN [lastOp EXCEPT ![ops[i].sid] =
                        [op |-> "touch", session |-> NoSession,
                         expires |-> ops[i].expires, now |-> ops[i].now,
                         upd |-> TRUE, conc |-> FALSE]]
                 ELSE lastOp
  /\ Settle(i, [ops[i] EXCEPT !.pc = "resolved"])

ExecDeleteExpired(i) ==
  /\ Awaiting(i, "prune")
  /\ SchemaExists
  /\ table' = DeleteExpired(table, ops[i].now)
  /\ lastOp' = [s \in Sids |->
                  IF HasRow(table, s) /\ ~HasRow(table', s)
                    THEN [NoOp EXCEPT !.op = "prune"]
                    ELSE lastOp[s]]
  /\ Settle(i, [ops[i] EXCEPT !.pc = "resolved",
                              !.count = ToDecimal(Cardinality(table) - Cardinality(table'))])

\* the errors a statement of the method op is failed with: without the table
\* every statement fails, with it the statement of prune, whose handler reads
\* the message, fails in each of the ways the handler tells apart
Failures(op) ==
  IF ~SchemaExists THEN {ConnectionLost, RelationMissing}
  ELSE IF op = "prune" THEN {ConnectionLost, StatementExists, StatementMissing}
  ELSE {ConnectionLost}

\* the statement fails with error e: the awaited promise rejects
ExecFail(i, e) ==
  /\ ops[i].pc = "awaiting"
  /\ e \in Failures(ops[i].op)
  /\ Settle(i, [ops[i] EXCEPT !.pc = "rejected", !.error = e])
  /\ UNCHANGED <<table, lastOp>>

----------------------------------------------------------------------------
(* The continuation of call i after its await *)

Settled(i, op) == ops[i].pc \in {"resolved", "rejected"} /\ ops[i].op = op

\* what the caller's callback does: it returns, throws when first invoked,
\* or throws whenever invoked
CallbackThrows == {"never", "once", "always"}

\* callback(...) inside try { } catch (err) { callback(err) }: an exception
\* of an invocation in the try block is caught and passed to the callback,
\* an exception of the invocation in the catch block rejects the promise
Invoke(cb, throws) ==
  [cb EXCEPT !.again = (~cb.err /\ throws # "never"),
             !.unhandled = IF cb.err THEN throws # "never" ELSE throws = "always"]

Callback(i, cb) ==
  /\ \E throws \in CallbackThrows : lastCb' = Invoke(cb, throws)
  /\ lastLog' = NoLog
  /\ ops' = [ops EXCEPT ![i] = Idle]
  /\ UNCHANGED <<now, table, lastOp, writes, reads>>
  /\ UNCHANGED initVars

CbOf(i) == [NoCb EXCEPT !.op = ops[i].op, !.sid = ops[i].sid, !.now = ops[i].now,
                        !.seen = ops[i].seen, !.error = ops[i].error]

\* rows[0][0]
FirstRow(rows) == CHOOSE d \in rows : TRUE

\* lines 90-95
GetDone(i) ==
  /\ Settled(i, "get")
  /\ Callback(i,
       IF ops[i].pc = "rejected" THEN [CbOf(i) EXCEPT !.err = TRUE]
       ELSE IF ops[i].rows = {} THEN CbOf(i)
       ELSE [CbOf(i) EXCEPT !.session = JSONparse(FirstRow(ops[i].rows))])

\* variant of the catch blocks: callback() without the error
VoidCallbackDropsError(i) == Callback(i, [CbOf(i) EXCEPT !.error = NoError])

\* callback() or callback(err)
VoidCallback(i) == Callback(i, [CbOf(i) EXCEPT !.err = (ops[i].pc = "rejected")])

\* lines 116-118
SetDone(i) ==
  /\ Settled(i, "set")
  /\ VoidCallback(i)

\* lines 126-128
DestroyDone(i) ==
  /\ Settled(i, "destroy")
  /\ VoidCallback(i)

\* lines 136-138
ClearDone(i) ==
  /\ Settled(i, "clear")
  /\ VoidCallback(i)

\* lines 167-169
TouchDone(i) ==
  /\ Settled(i, "touch")
  /\ VoidCallback(i)

\* lines 146-149
LengthDone(i) ==
  /\ Settled(i, "length")
  /\ Callback(i,
       IF ops[i].pc = "rejected" THEN [CbOf(i) EXCEPT !.err = TRUE]
       ELSE [CbOf(i) EXCEPT !.count = ParseCount(ops[i].count)])

\* lines 178-184: prune has no callback, it only logs
PruneDone(i) ==
  /\ Settled(i, "prune")
  /\ ops' = [ops EXCEPT ![i] = Idle]
  /\ lastCb' = NoCb
  /\ lastLog' =
       IF ops[i].pc = "resolved" THEN ConsoleLog("pruned", ops[i].count)
       ELSE IF ~Includes(ops[i].error, AlreadyExists) /\ ~Includes(ops[i].error, DoesNotExist)
         THEN ConsoleError("prune failed", ops[i].error)
         ELSE NoLog
  /\ UNCHANGED <<now, table, lastOp, writes, reads>>
  /\ UNCHANGED initVars

----------------------------------------------------------------------------
(* Time *)

Period == DefaultTtl * MsPerSecond
TickSteps == {1, Period}
InGrid(t) == t <= MaxFine \/ (t % Period = 0 /\ t \div Period <= MaxDays)

Tick(d) ==
  /\ InGrid(now + d)
  /\ now' = now + d
  /\ lastCb' = NoCb
  /\ lastLog' = NoLog
  /\ UNCHANGED <<table, ops, lastOp, writes, reads>>
  /\ UNCHANGED initVars

----------------------------------------------------------------------------
(* Construction and the initialization guard *)

StoreIds == 1 .. MaxStores
TtlOptions == {Undefined, Num(60)}
InFlightPcs == {"createTable", "createIndex", "fulfilled", "rejected"}
AttemptInFlight == \E k \in StoreIds : attempt[k] \in InFlightPcs

\* options.ttl ?? 86400
TtlOf(optTtl) == IF optTtl.t \in {"undefined", "null"} THEN DefaultTtl ELSE optTtl.v

\* variant of the guard: the in-flight marker is not consulted
ShouldInitializeFlagOnly == ~isInitialized

\* if (!isInitialized && !initPromise)
ShouldInitialize == ~isInitialized /\ initPromise = 0

\* new BunSQLStore({ db, ttl }), lines 42-62; initializeDb() runs up to its
\* first await, which issues CREATE TABLE
Construct(db, optTtl) ==
  /\ Len(stores) < MaxStores
  /\ stores' = Append(stores, [db |-> db, ttl |-> TtlOf(optTtl),
                               sawInFlight |-> AttemptInFlight,
                               sawInitialized |-> isInitialized])
  /\ ctorThrew' = FALSE
  /\ IF ShouldInitialize
       THEN /\ attempt' = [attempt EXCEPT ![Len(stores) + 1] = "createTable"]
            /\ initPromise' = Len(stores) + 1
            /\ nStarted' = nStarted + 1
       ELSE UNCHANGED <<attempt, initPromise, nStarted>>
  /\ UNCHANGED <<isInitialized, tableExists, indexExists, nFailed>>
  /\ lastLog' = NoLog
  /\ UNCHANGED storeVars

\* variant of the constructor: the db check placed after the guard block
ConstructChecksDbLast ==
  /\ ctorThrew' = TRUE
  /\ IF ShouldInitialize
       THEN initPromise' = Len(stores) + 1 /\ nStarted' = nStarted + 1
       ELSE UNCHANGED <<initPromise, nStarted>>
  /\ UNCHANGED <<isInitialized, stores, attempt, tableExists, indexExists, nFailed>>
  /\ lastLog' = NoLog
  /\ UNCHANGED storeVars

\* new BunSQLStore({}) or new BunSQLStore(undefined), line 44
ConstructWithoutDb ==
  /\ ctorThrew' = TRUE
  /\ UNCHANGED <<isInitialized, initPromise, stores, attempt, tableExists,
                 indexExists, nStarted, nFailed>>
  /\ lastLog' = NoLog
  /\ UNCHANGED storeVars

InitStep(k, pc, pcNext) ==
  /\ k <= Len(stores)
  /\ attempt[k] = pc
  /\ attempt' = [attempt EXCEPT ![k] = pcNext]
  /\ UNCHANGED <<stores, ctorThrew, nStarted>>
  /\ UNCHANGED storeVars

\* line 67 succeeds
CreateTableOk(k) ==
  /\ InitStep(k, "createTable", "createIndex")
  /\ tableExists' = [tableExists EXCEPT ![stores[k].db] = TRUE]
  /\ UNCHANGED <<isInitialized, initPromise, indexExists, nFailed>>
  /\ lastLog' = NoLog

\* line 67 fails with "already exists", swallowed at line 70
CreateTableExists(k) ==
  /\ InitStep(k, "createTable", "createIndex")
  /\ tableExists[stores[k].db]
  /\ UNCHANGED <<isInitialized, initPromise, tableExists, indexExists, nFailed>>
  /\ lastLog' = NoLog

\* line 67 fails with another error, rethrown at line 70
CreateTableFail(k) ==
  /\ InitStep(k, "createTable", "rejected")
  /\ UNCHANGED <<isInitialized, initPromise, tableExists, indexExists, nFailed>>
  /\ lastLog' = NoLog

\* line 74 succeeds
CreateIndexOk(k) ==
  /\ InitStep(k, "createIndex", "fulfilled")
  /\ tableExists[stores[k].db]
  /\ indexExists' = [indexExists EXCEPT ![stores[k].db] = TRUE]
  /\ UNCHANGED <<isInitialized, initPromise, tableExists, nFailed>>
  /\ lastLog' = NoLog

\* line 74 fails with "already exists", swallowed at line 77
CreateIndexExists(k) ==
  /\ InitStep(k, "createIndex", "fulfilled")
  /\ indexExists[stores[k].db]
  /\ UNCHANGED <<isInitialized, initPromise, tableExists, indexExists, nFailed>>
  /\ lastLog' = NoLog

\* line 74 fails with another error, rethrown at line 77
CreateIndexFail(k) ==
  /\ InitStep(k, "createIndex", "rejected")
  /\ UNCHANGED <<isInitialized, initPromise, tableExists, indexExists, nFailed>>
  /\ lastLog' = NoLog

\* the .then handler, lines 52-55
InitThen(k) ==
  /\ InitStep(k, "fulfilled", "done")
  /\ isInitialized' = TRUE
  /\ lastLog' = ConsoleLog("initialized", << >>)
  /\ UNCHANGED <<initPromise, tableExists, indexExists, nFailed>>

\* variant of the .catch handler: the in-flight marker is left set
InitCatchKeepsMarker(k) ==
  /\ InitStep(k, "rejected", "failed")
  /\ lastLog' = ConsoleError("initialization failed", ConnectionLost)
  /\ nFailed' = nFailed + 1
  /\ UNCHANGED <<isInitialized, initPromise, tableExists, indexExists>>

\* the .catch handler, lines 56-60
InitCatch(k) ==
  /\ InitStep(k, "rejected", "failed")
  /\ lastLog' = ConsoleError("initialization failed", ConnectionLost)
  /\ initPromise' = 0
  /\ nFailed' = nFailed + 1
  /\ UNCHANGED <<isInitialized, tableExists, indexExists>>

\* the module is loaded and no store constructed; a database may hold the
\* schema an earlier run created
InitModule ==
  /\ now = 0
  /\ table = {}
  /\ ops = [i \in Slots |-> Idle]
  /\ lastCb = NoCb
  /\ lastLog = NoLog
  /\ lastOp = [s \in Sids |-> NoOp]
  /\ writes = 0
  /\ reads = 0
  /\ isInitialized = FALSE
  /\ initPromise = 0
  /\ stores = << >>
  /\ attempt = [k \in StoreIds |-> "none"]
  /\ tableExists \in [Dbs -> BOOLEAN]
  /\ indexExists \in [Dbs -> BOOLEAN]
  /\ \A d \in Dbs : indexExists[d] => tableExists[d]
  /\ ctorThrew = FALSE
  /\ nStarted = 0
  /\ nFailed = 0

NextInit ==
  \/ \E db \in Dbs, optTtl \in TtlOptions : Construct(db, optTtl)
  \/ ConstructWithoutDb
  \/ \E k \in StoreIds : CreateTableOk(k)
  \/ \E k \in StoreIds : CreateTableExists(k)
  \/ \E k \in StoreIds : CreateTableFail(k)
  \/ \E k \in StoreIds : CreateIndexOk(k)
  \/ \E k \in StoreIds : CreateIndexExists(k)
  \/ \E k \in StoreIds : CreateIndexFail(k)
  \/ \E k \in StoreIds : InitThen(k)
  \/ \E k \in StoreIds : InitCatch(k)

SpecInit == InitModule /\ [][NextInit]_vars

----------------------------------------------------------------------------
(* The store in use: one instance, constructed with { db }.  Either its    *)
(* initialization succeeded, and the table, which is in the database and   *)
(* outlives the process, is empty or holds the row an earlier              *)
(* set("def", SessionA) at instant 0 wrote; or its CREATE TABLE failed on  *)
(* a database without the schema, and the .catch handler has run.          *)

SeedSet == [op |-> "set", session |-> SessionA,
            expires |-> ExpiresAt(0, SessionA, TtlOf(Undefined)), now |-> 0,
            upd |-> FALSE, conc |-> FALSE]
SeedRow == [sid |-> "def", expires |-> SeedSet.expires,
            data |-> JSONstringify(SessionA), created_at |-> 0]

Init ==
  /\ now = 0
  /\ isInitialized \in BOOLEAN
  /\ table \in (IF isInitialized THEN {{}, {SeedRow}} ELSE {{}})
  /\ ops = [i \in Slots |-> Idle]
  /\ lastCb = NoCb
  /\ lastLog = NoLog
  /\ lastOp = [s \in Sids |-> IF HasRow(table, s) THEN SeedSet ELSE NoOp]
  /\ writes = 0
  /\ reads = 0
  /\ initPromise = (IF isInitialized THEN 1 ELSE 0)
  /\ stores = <<[db |-> "db1", ttl |-> TtlOf(Undefined), sawInFlight |-> FALSE,
                 sawInitialized |-> FALSE]>>
  /\ attempt = [k \in StoreIds |->
                  IF k # 1 THEN "none" ELSE IF isInitialized THEN "done" ELSE "failed"]
  /\ tableExists = [d \in Dbs |-> d = "db1" /\ isInitialized]
  /\ indexExists = [d \in Dbs |-> d = "db1" /\ isInitialized]
  /\ ctorThrew = FALSE
  /\ nStarted = 1
  /\ nFailed = (IF isInitialized THEN 0 ELSE 1)

Next ==
  \/ \E d \in TickSteps : Tick(d)
  \/ \E sid \in Sids : Get(sid)
  \/ \E sid \in Sids, session \in Sessions : Set(sid, session)
  \/ \E sid \in Sids : Destroy(sid)
  \/ Clear
  \/ Length
  \/ \E sid \in Sids, session \in Sessions : Touch(sid, session)
  \/ Prune
  \/ \E i \in Slots : ExecSelect(i)
  \/ \E i \in Slots : ExecUpsert(i)
  \/ \E i \in Slots : ExecDeleteSid(i)
  \/ \E i \in Slots : ExecDeleteAll(i)
  \/ \E i \in Slots : ExecCount(i)
  \/ \E i \in Slots : ExecUpdate(i)
  \/ \E i \in Slots : ExecDeleteExpired(i)
  \/ \E i \in Slots, e \in ErrorMessages : ExecFail(i, e)
  \/ \E i \in Slots : GetDone(i)
  \/ \E i \in Slots : SetDone(i)
  \/ \E i \in Slots : DestroyDone(i)
  \/ \E i \in Slots : ClearDone(i)
  \/ \E i \in Slots : LengthDone(i)
  \/ \E i \in Slots : TouchDone(i)
  \/ \E i \in Slots : PruneDone(i)

Spec == Init /\ [][Next]_vars

----------------------------------------------------------------------------
(* Properties.  In a callback record, seen is the entry of lastOp the       *)
(* SELECT of that get found for its sid: seen.op = "set" says the row the   *)
(* SELECT read was last written by that set and by nothing since.           *)

GetAnswered == lastCb.op = "get" /\ lastCb.seen.op = "set"

\* what JSON.parse(JSON.stringify(v)) is, for a cookie field v
AsJson(v) == IF v.t = "Date" THEN IsoString(v.v) ELSE v
JsonImage(session) ==
  [cookie |-> [maxAge  |-> AsJson(session.cookie.maxAge),
               expires |-> AsJson(session.cookie.expires)],
   user |-> session.user]
JsonSafe(session) == JsonImage(session) = session

\* C1 as stated: a get of a sid whose row was last written by set(s, p), at an
\* instant before the expiry that set computed, calls back with no error and
\* a payload equal to p.
C1_RoundTripExact ==
  (GetAnswered /\ lastCb.now < lastCb.seen.expires)
     => (~lastCb.err /\ lastCb.session = lastCb.seen.session)

\* C1 amended: ... calls back with no error and the JSON image of p (p with
\* every Date replaced by its ISO string), which is p itself when p holds no
\* Date.
C1_RoundTripJson ==
  (GetAnswered /\ lastCb.now < lastCb.seen.expires)
     => /\ ~lastCb.err
        /\ lastCb.session = JsonImage(lastCb.seen.session)
        /\ JsonSafe(lastCb.seen.session) => lastCb.session = lastCb.seen.session

\* a get issued after the set, before its expiry, answered with the payload
C1_Witness ==
  /\ GetAnswered
  /\ lastCb.seen.now < lastCb.now
  /\ lastCb.now < lastCb.seen.expires
  /\ lastCb.session = lastCb.seen.session
  /\ lastCb.session # NoSession

\* the expiry instant of a set or touch: T + maxAge when maxAge is a number,
\* T + ttl * 1000 otherwise
ClaimedExpiry(t, session) ==
  IF session.cookie.maxAge.t = "number"
    THEN t + session.cookie.maxAge.v
    ELSE t + stores[1].ttl * 1000

\* C2: a get of a sid whose row was last written by set(s, p) at T, issued at
\* an instant >= the expiry instant E of that set, calls back with no error
\* and no session, E being T + maxAge or T + ttl * 1000 with ttl = 86400; the
\* row is in the table as long as nothing else was applied to s.
C2_ExpiredReadsAbsent ==
  /\ stores[1].ttl = 86400
  /\ \A s \in Sids : lastOp[s].op = "set" =>
        /\ lastOp[s].expires = ClaimedExpiry(lastOp[s].now, lastOp[s].session)
        /\ HasRow(table, s)
  /\ (GetAnswered /\ lastCb.now >= ClaimedExpiry(lastCb.seen.now, lastCb.seen.session))
        => (~lastCb.err /\ lastCb.session = NoSession)

\* a get at exactly the expiry instant of a set that took the default ttl,
\* answered absent while the row is still there
C2_Witness ==
  /\ GetAnswered
  /\ lastCb.seen.session.cookie.maxAge.t # "number"
  /\ lastCb.now = lastCb.seen.expires
  /\ lastCb.session = NoSession
  /\ ~lastCb.err
  /\ lastOp[lastCb.sid] = lastCb.seen
  /\ \E r \in table : r.sid = lastCb.sid /\ r.expires = now

\* the database applies the statement of call i in this step
Applies(i, op) == Awaiting(i, op) /\ ops'[i].pc = "resolved"
\* the continuation of call i, whose statement succeeded, runs in this step
Completes(i, op) == ops[i].op = op /\ ops[i].pc = "resolved" /\ ops'[i].pc = "idle"

OneRowPerSid == \A r1, r2 \in table : r1.sid = r2.sid => r1 = r2

\* after a set, the row of its sid is the one it wrote
RowIsLastSet ==
  \A s \in Sids : lastOp[s].op = "set" =>
    \E r \in table :
      /\ RowsOf(table, s) = {r}
      /\ r.data = JSONstringify(lastOp[s].session)
      /\ r.expires = lastOp[s].expires

\* C3 as stated: the table holds at most one row per sid; after a set that
\* found a row of its sid there is exactly one row for it, with the data and
\* expires of that set, and a get of it before the expiry returns the payload
\* of that set.
C3_UpsertExact ==
  /\ OneRowPerSid
  /\ RowIsLastSet
  /\ (GetAnswered /\ lastCb.seen.upd /\ lastCb.now < lastCb.seen.expires)
        => lastCb.session = lastCb.seen.session

\* C3 amended: ... and a get of it before the expiry returns the JSON image of
\* the payload of that set, which is the payload itself when it holds no Date.
C3_UpsertJson ==
  /\ OneRowPerSid
  /\ RowIsLastSet
  /\ (GetAnswered /\ lastCb.seen.upd /\ lastCb.now < lastCb.seen.expires)
        => /\ lastCb.session = JsonImage(lastCb.seen.session)
           /\ JsonSafe(lastCb.seen.session) => lastCb.session = lastCb.seen.session

\* a second set of a sid with another payload at a later instant, then a get
\* that returns the second payload; the row keeps the first created_at
C3_Witness ==
  /\ GetAnswered
  /\ lastCb.seen.upd
  /\ lastCb.seen.session = SessionB
  /\ lastCb.session = SessionB
  /\ lastCb.seen.now > 0
  /\ RowsOf(table, lastCb.sid) =
        {[sid |-> lastCb.sid, expires |-> lastCb.seen.expires,
          data |-> JSONstringify(SessionB), created_at |-> 0]}

\* C4: no step changes the created_at of a row that is in the table before
\* and after it: a set or touch of an existing row keeps the created_at of the
\* insert that created it.
C4_CreatedAtWriteOnce ==
  [][\A r \in table : \A q \in table' :
        r.sid = q.sid => q.created_at = r.created_at]_vars

\* the seeded row, created at instant 0, after a set with another payload
\* and then a touch at a later instant: created_at is still 0
C4_Witness ==
  \E r \in table :
    /\ r.sid = "def"
    /\ r.created_at = 0
    /\ r.data # SeedRow.data
    /\ lastOp["def"].op = "touch"
    /\ lastOp["def"].now > 0
    /\ r.expires = lastOp["def"].expires

\* C5: when the database applies the UPDATE of touch(s, session) called at T,
\* the row of s gets expires = T + (maxAge if a number, else ttl * 1000) and
\* keeps its data and created_at, every other row is unchanged, nothing is
\* inserted, and with no row of s the table is unchanged; the callback of a
\* touch whose UPDATE succeeded gets no error.
C5_TouchOnlyExpires ==
  [][\A i \in Slots :
       /\ Applies(i, "touch") =>
            LET e == ClaimedExpiry(ops[i].now, ops[i].session) IN
            /\ \A r \in table :
                  IF r.sid = ops[i].sid THEN [r EXCEPT !.expires = e] \in table'
                  ELSE r \in table'
            /\ \A q \in table' :
                  IF q.sid = ops[i].sid
                    THEN \E r \in table : q = [r EXCEPT !.expires = e]
                    ELSE q \in table
            /\ ~HasRow(table, ops[i].sid) => table' = table
       /\ Completes(i, "touch") => (lastCb'.op = "touch" /\ ~lastCb'.err)]_vars

\* a touch of a sid without a row has just reported success, the table as it
\* was, after a touch with another max-age moved the expiry of the seeded row
C5_Witness ==
  /\ lastCb.op = "touch"
  /\ ~lastCb.err
  /\ ~HasRow(table, lastCb.sid)
  /\ lastOp[lastCb.sid].op = "none"
  /\ lastOp["def"].op = "touch"
  /\ \E r \in table : /\ r = [SeedRow EXCEPT !.expires = lastOp["def"].expires]
                        /\ r # SeedRow

\* C6: when the database applies the DELETE of destroy(s), the row of s goes
\* and every other row stays as it is (with no row of s the table is
\* unchanged); the callback of a destroy whose DELETE succeeded gets no error;
\* and a get of a sid that was removed and not set since returns no session.
C6_DestroyOnlySid ==
  [][/\ \A i \in Slots :
          /\ Applies(i, "destroy") =>
               /\ \A r \in table : r.sid # ops[i].sid => r \in table'
               /\ \A q \in table' : q \in table /\ q.sid # ops[i].sid
          /\ Completes(i, "destroy") => (lastCb'.op = "destroy" /\ ~lastCb'.err)
     /\ \A s \in Sids : lastOp'[s].op = "destroy" => ~HasRow(table', s)
     /\ (lastCb'.op = "get" /\ lastCb'.seen.op \in {"destroy", "clear", "prune"})
          => (~lastCb'.err /\ lastCb'.session = NoSession)]_vars

\* the seeded row was destroyed while a row of the other sid stayed, and a
\* get of the destroyed sid has just returned no session
C6_Witness ==
  /\ lastCb.op = "get"
  /\ lastCb.sid = "def"
  /\ lastCb.seen.op = "destroy"
  /\ lastCb.session = NoSession
  /\ ~lastCb.err
  /\ \E r \in table : r.sid = "abc"
  /\ ~HasRow(table, "def")

\* C7: when the database applies the DELETE of a prune() called at T, exactly
\* the rows with expires < T go: the rows with expires >= T stay as they are,
\* and the row count drops by the number of rows that had expires < T.
C7_PruneStrictlyExpired ==
  [][\A i \in Slots :
       Applies(i, "prune") =>
         /\ \A r \in table : r.expires >= ops[i].now => r \in table'
         /\ \A q \in table' : q \in table /\ q.expires >= ops[i].now
         /\ Cardinality(table') =
              Cardinality(table) - Cardinality({r \in table : r.expires < ops[i].now})]_vars

\* a prune has removed the seeded row and kept a row whose expires is the
\* instant the prune was called at
C7_Witness ==
  \E i \in Slots :
    /\ ops[i].op = "prune"
    /\ ops[i].pc = "resolved"
    /\ lastOp["def"].op = "prune"
    /\ Cardinality(table) = 1
    /\ \E r \in table : r.sid = "abc" /\ r.expires = ops[i].now

\* sids a get issued now would return a session for
LiveSids == {s \in Sids : \E r \in table : r.sid = s /\ r.expires > now}

\* C8: the COUNT of length() answers the number of rows in the table, expired
\* or not, and the callback gets that number; the number of rows grows only
\* when the database applies a set and shrinks only when it applies a
\* destroy, clear or prune, never when only time passes.
C8_LengthCountsRows ==
  [][/\ \A i \in Slots :
          /\ Applies(i, "length") => ops'[i].count = ToDecimal(Cardinality(table))
          /\ Completes(i, "length") =>
               /\ lastCb'.op = "length"
               /\ ~lastCb'.err
               /\ ToDecimal(lastCb'.count) = ops[i].count
     /\ Cardinality(table') > Cardinality(table) => \E i \in Slots : Applies(i, "set")
     /\ Cardinality(table') < Cardinality(table) =>
          \E i \in Slots :
            Applies(i, "destroy") \/ Applies(i, "clear") \/ Applies(i, "prune")
     /\ now' # now => table' = table]_vars

\* length() has just returned the number of rows, which is more than the
\* number of sids a get returns a session for
C8_Witness ==
  /\ lastCb.op = "length"
  /\ ~lastCb.err
  /\ lastCb.count = Cardinality(table)
  /\ lastCb.count = 2
  /\ Cardinality(LiveSids) < 2

\* C9: while no initialization attempt has failed, the constructions so far
\* have started exactly one attempt, the first construction's; at most one
\* attempt is in flight at any time; and a store constructed while an attempt
\* was in flight or after one had succeeded started none (it issues neither
\* CREATE statement).
C9_InitializesOnce ==
  /\ (nFailed = 0 /\ Len(stores) >= 1) =>
        /\ nStarted = 1
        /\ attempt[1] # "none"
        /\ \A k \in 2 .. Len(stores) : attempt[k] = "none"
  /\ Cardinality({k \in StoreIds : attempt[k] \in InFlightPcs}) <= 1
  /\ \A k \in 1 .. Len(stores) :
        (stores[k].sawInFlight \/ stores[k].sawInitialized) => attempt[k] = "none"

\* three stores, the second constructed while the attempt of the first was in
\* flight, the third after it had succeeded: one attempt in all
C9_Witness ==
  /\ Len(stores) = 3
  /\ stores[2].sawInFlight
  /\ stores[3].sawInitialized
  /\ attempt[1] = "done"
  /\ nStarted = 1
  /\ nFailed = 0

\* the frame of a set: the rows of the other sids are untouched and the sid
\* of the set has exactly one row, with the data and the expiry of that call
SetFrame ==
  \A i \in Slots :
    Applies(i, "set") =>
      /\ \A r \in table : r.sid # ops[i].sid => r \in table'
      /\ \A q \in table' : q.sid # ops[i].sid => q \in table
      /\ \E q \in table' :
            /\ RowsOf(table', ops[i].sid) = {q}
            /\ q.data = JSONstringify(ops[i].session)
            /\ q.expires = ClaimedExpiry(ops[i].now, ops[i].session)

\* the rows of the sets that were applied while a set of another sid was
\* awaiting the database
RacedSetsStand ==
  \A s \in Sids :
    (lastOp[s].op = "set" /\ lastOp[s].conc) =>
      \E r \in table :
        /\ RowsOf(table, s) = {r}
        /\ r.data = JSONstringify(lastOp[s].session)
        /\ r.expires = ClaimedExpiry(lastOp[s].now, lastOp[s].session)

RacedGet ==
  lastCb.op = "get" /\ lastCb.seen.op = "set" /\ lastCb.seen.conc
    /\ lastCb.now < lastCb.seen.expires

\* C10 as stated: a set applied in any interleaving with sets of other sids
\* leaves their rows alone and leaves one row for its sid with its data and
\* its expiry, and a later get of that sid returns its payload.
C10_DistinctSetsExact ==
  [][/\ SetFrame
     /\ RacedSetsStand'
     /\ RacedGet' => lastCb'.session = lastCb'.seen.session]_vars

\* C10 amended: ... and a later get of that sid returns the JSON image of its
\* payload, which is the payload itself when it holds no Date.
C10_DistinctSetsJson ==
  [][/\ SetFrame
     /\ RacedSetsStand'
     /\ RacedGet' =>
          /\ lastCb'.session = JsonImage(lastCb'.seen.session)
          /\ JsonSafe(lastCb'.seen.session) =>
                lastCb'.session = lastCb'.seen.session]_vars

\* two sets of distinct sids were awaiting the database together; both rows
\* are in the table and a get of the one applied first returns its payload
C10_Witness ==
  /\ RacedGet
  /\ lastCb.session = lastCb.seen.session
  /\ lastOp[lastCb.sid] = lastCb.seen
  /\ \E s \in Sids :
        /\ s # lastCb.sid
        /\ lastOp[s].op = "set"
        /\ lastOp[s] # SeedSet
        /\ HasRow(table, s)
  /\ HasRow(table, lastCb.sid)
  /\ writes = 2

\* C11: when the database applies the upsert of a set, whatever other sets of
\* the same sid are awaiting the database or were applied before it, the sid
\* has exactly one row afterwards, its data and its expires both those of
\* this call, and the statements of the other calls are neither dropped nor
\* changed; so after any interleaving the row of a sid last written by a set
\* is the row of the set applied last, not of the set called last.
C11_LastCommitWins ==
  [][/\ \A i \in Slots :
          Applies(i, "set") =>
            /\ \E q \in table' :
                  /\ RowsOf(table', ops[i].sid) = {q}
                  /\ q.data = ops[i].data
                  /\ q.expires = ops[i].expires
            /\ lastOp'[ops[i].sid].session = ops[i].session
            /\ lastOp'[ops[i].sid].now = ops[i].now
            /\ \A k \in Slots \ {i} : ops'[k] = ops[k]
     /\ \A s \in Sids :
          lastOp'[s].op = "set" =>
            \E q \in table' :
              /\ RowsOf(table', s) = {q}
              /\ q.data = JSONstringify(lastOp'[s].session)
              /\ q.expires = ExpiresAt(lastOp'[s].now, lastOp'[s].session, ThisTtl)]_vars

\* two sets of the same sid with different payloads were awaiting the
\* database together; the one called later was applied first, and the row
\* holds the data and the expires of the one called first
C11_Witness ==
  \E i, k \in Slots :
    /\ ops[i].op = "set" /\ ops[i].pc = "resolved"
    /\ ops[k].op = "set" /\ ops[k].pc = "resolved"
    /\ ops[i].sid = ops[k].sid
    /\ ops[i].now < ops[k].now
    /\ ops[i].data # ops[k].data
    /\ ops[i].expires # ops[k].expires
    /\ lastOp[ops[i].sid].upd
    /\ lastOp[ops[i].sid].now = ops[i].now
    /\ \E r \in table :
          /\ RowsOf(table, ops[i].sid) = {r}
          /\ r.data = ops[i].data
          /\ r.expires = ops[i].expires
          /\ r.created_at = ops[k].now

\* a store is constructed in this step
Constructs == Len(stores') = Len(stores) + 1

\* C12: a schema statement that fails with an error other than "already
\* exists" fails the attempt of a store whose constructor has returned, and
\* makes no constructor throw; when the .catch handler has run the flag is
\* false and the marker null, and they stay so until the next construction,
\* which starts a new attempt; a schema statement that fails with "already
\* exists" moves the attempt on exactly as a success does.
C12_FailureIsRetryable ==
  [][/\ \A k \in StoreIds :
          /\ (attempt[k] \in {"createTable", "createIndex"} /\ attempt'[k] = "rejected")
                => /\ k <= Len(stores)
                   /\ UNCHANGED <<stores, ctorThrew, isInitialized>>
          /\ (attempt[k] = "rejected" /\ attempt'[k] = "failed")
                => (~isInitialized' /\ initPromise' = 0)
          /\ (attempt[k] = "createTable" /\ attempt'[k] # attempt[k] /\ tableExists[stores[k].db])
                => (attempt'[k] \in {"createIndex", "rejected"}
                      /\ UNCHANGED <<tableExists, indexExists>>)
          /\ (attempt[k] = "createIndex" /\ attempt'[k] # attempt[k] /\ indexExists[stores[k].db])
                => (attempt'[k] \in {"fulfilled", "rejected"}
                      /\ UNCHANGED <<tableExists, indexExists>>)
     /\ (~isInitialized' /\ ~AttemptInFlight') => initPromise' = 0
     /\ (Constructs /\ nFailed > 0 /\ ~isInitialized /\ ~AttemptInFlight)
          => /\ attempt'[Len(stores')] = "createTable"
             /\ nStarted' = nStarted + 1
             /\ ~ctorThrew']_vars

\* the attempt of the first store failed, the second store was constructed
\* after that and its attempt succeeded on a database that held the table
\* already
C12_Witness ==
  /\ Len(stores) = 2
  /\ attempt[1] = "failed"
  /\ attempt[2] = "done"
  /\ ~stores[2].sawInFlight
  /\ isInitialized
  /\ nFailed = 1
  /\ nStarted = 2
  /\ ~ctorThrew

\* C13: a constructor call without a database executor throws, constructs no
\* store, starts no attempt (so issues no schema statement) and leaves the
\* flag and the marker as they were; a call that constructs a store does not
\* throw.
C13_MissingDbThrows ==
  [][/\ (~ctorThrew /\ ctorThrew')
          => UNCHANGED <<isInitialized, initPromise, stores, attempt, nStarted,
                         nFailed, tableExists, indexExists>>
     /\ Constructs => ~ctorThrew']_vars

\* a constructor call without an executor threw while the attempt of the
\* first store was in flight, and that attempt has gone on to create the table
C13_Witness ==
  /\ ctorThrew
  /\ Len(stores) = 1
  /\ attempt[1] = "createIndex"
  /\ initPromise = 1
  /\ ~isInitialized
  /\ nStarted = 1

\* the methods that take a completion callback
CallbackOps == {"get", "set", "destroy", "clear", "length", "touch"}
\* call i is made in this step
Calls(i) == ops[i].pc = "idle" /\ ops'[i].pc = "awaiting"
\* the statement of call i fails in this step
Fails(i) == ops[i].pc = "awaiting" /\ ops'[i].pc = "rejected"
\* the continuation of call i runs in this step
Continues(i) == ops[i].pc \in {"resolved", "rejected"} /\ ops'[i].pc = "idle"

\* C14: for get, set, destroy, clear, length and touch, the step that makes
\* the call and the step in which its statement fails leave the table as it
\* is and invoke no callback; the continuation of a call whose statement
\* failed invokes the callback of that call with that error, leaves the
\* table as it is and the call finished: no statement is issued again.
C14_ErrorsToCallback ==
  [][\A i \in Slots :
       /\ (Calls(i) /\ ops'[i].op \in CallbackOps) => (table' = table /\ lastCb' = NoCb)
       /\ (Fails(i) /\ ops[i].op \in CallbackOps) =>
             /\ table' = table
             /\ lastCb' = NoCb
             /\ ops'[i].error \in ErrorMessages
       /\ (Continues(i) /\ ops[i].pc = "rejected" /\ ops[i].op \in CallbackOps) =>
             /\ lastCb'.op = ops[i].op
             /\ lastCb'.sid = ops[i].sid
             /\ lastCb'.err
             /\ lastCb'.error = ops[i].error
             /\ lastCb'.session = NoSession
             /\ ~lastCb'.again
             /\ table' = table
             /\ ops' = [ops EXCEPT ![i] = Idle]
             /\ UNCHANGED <<writes, reads, lastOp>>]_vars

\* a set of the sid of the seeded row failed with a lost connection and its
\* callback has just got that error; the table holds the seeded row only
C14_Witness ==
  /\ lastCb.op = "set"
  /\ lastCb.sid = "def"
  /\ lastCb.err
  /\ lastCb.error = ConnectionLost
  /\ ~lastCb.unhandled
  /\ table = {SeedRow}
  /\ lastOp["def"] = SeedSet
  /\ \A i \in Slots : ops[i] = Idle

\* C15 as stated: whenever the DELETE of a prune fails, whatever the error,
\* the continuation of the prune completes (no callback, nothing thrown) and
\* writes the failure to the error log.
C15_PruneFailureLogged ==
  [][\A i \in Slots :
       (Continues(i) /\ ops[i].pc = "rejected" /\ ops[i].op = "prune") =>
          /\ lastCb' = NoCb
          /\ lastLog'.level = "error"
          /\ lastLog'.error = ops[i].error]_vars

\* C16: when the database applies the DELETE of a prune called at T, in any
\* interleaving with other calls, every row with expires >= T at that moment
\* stays as it is, in particular the row of a sid whose last set or touch
\* was applied before the DELETE and gave it an expiry >= T; the statements
\* of the other calls in flight, other prunes included, are left as they are;
\* the count the DELETE answers is the number of rows this DELETE removed,
\* so a row is counted by one prune only; and the continuation of a prune
\* whose DELETE succeeded logs that count and no error.
C16_PruneSafe ==
  [][\A i \in Slots :
       /\ Applies(i, "prune") =>
            /\ \A r \in table : r.expires >= ops[i].now => r \in table'
            /\ table' \subseteq table
            /\ \A s \in Sids :
                  (lastOp[s].op \in {"set", "touch"} /\ lastOp[s].expires >= ops[i].now)
                     => (HasRow(table', s) /\ lastOp'[s] = lastOp[s])
            /\ \A k \in Slots \ {i} : ops'[k] = ops[k]
            /\ ops'[i].count = ToDecimal(Cardinality(table \ table'))
       /\ (Continues(i) /\ ops[i].pc = "resolved" /\ ops[i].op = "prune") =>
            (lastLog'.level = "log" /\ lastLog'.count = ops[i].count)]_vars

\* a prune was called when the seeded row had expired; a touch called after
\* it was applied before its DELETE and moved the expiry past the instant of
\* the prune; the DELETE has removed nothing and the row is there
C16_Witness ==
  \E i \in Slots :
    /\ ops[i].op = "prune"
    /\ ops[i].pc = "resolved"
    /\ ops[i].count = <<0>>
    /\ SeedRow.expires < ops[i].now
    /\ lastOp["def"].op = "touch"
    /\ lastOp["def"].now >= ops[i].now
    /\ table = {[SeedRow EXCEPT !.expires = lastOp["def"].expires]}

\* C17 as stated: a call of a store operation made when an initialization
\* attempt has failed and none is in flight starts a new attempt.
C17_CallRetriesInit ==
  [][\A i \in Slots :
       (Calls(i) /\ nFailed > 0 /\ ~isInitialized /\ initPromise = 0)
          => (initPromise' # 0 /\ nStarted' = nStarted + 1)]_vars

\* a get of sid s called at this instant and answered at once returns a session
Readable(s) == SelectData(table, s, now) # {}

\* C18 as stated: a sid that a get would find absent stays absent in every
\* step but the one in which the database applies a set of that sid,
\* whatever touch, destroy, clear and prune calls are applied and however
\* time passes.
C18_ExpiredStaysAbsent ==
  [][\A s \in Sids :
       (~Readable(s) /\ ~\E i \in Slots : Applies(i, "set") /\ ops[i].sid = s)
          => ~Readable(s)']_vars

\* C19 as stated: when the flag is true, or a store skipped initialization
\* because an attempt was in flight and that attempt has ended, the table and
\* the index exist in the database of every store constructed so far.
C19_SchemaOnEveryExecutor ==
  (\/ isInitialized
   \/ /\ ~AttemptInFlight
      /\ \E k \in 1 .. Len(stores) : stores[k].sawInFlight /\ attempt[k] = "none")
    => \A k \in 1 .. Len(stores) :
          tableExists[stores[k].db] /\ indexExists[stores[k].db]

\* C20 as stated: the continuation of a call of get, set, destroy, clear,
\* length or touch, which runs when its statement has succeeded or failed,
\* invokes the callback of that call once, with an error or with a result
\* and not both, whether or not the callback throws; no other step invokes a
\* callback.
C20_CallbackExactlyOnce ==
  [][/\ \A i \in Slots :
          (Continues(i) /\ ops[i].op \in CallbackOps) =>
             /\ lastCb'.op = ops[i].op
             /\ lastCb'.err = (ops[i].pc = "rejected")
             /\ ~lastCb'.again
     /\ lastCb'.op # "none" =>
          \E i \in Slots : Continues(i) /\ ops[i].op = lastCb'.op]_vars

====
